---- MODULE Spec2Model ----
(***************************************************************************)
(* A model of the refresh pipeline of the Woot deals bot (src/main.py):    *)
(* feed fetching with retries, deal normalisation and filtering, the       *)
(* historical-low store with its persistence file, the result cache        *)
(* shared by the timer and the interactive callers, and the paginated      *)
(* view of a deal list.                                                    *)
(*                                                                         *)
(* Units.  Money is counted in cents (75.00 is 7500).  discount_percent    *)
(* is counted in hundredths of a percent, the resolution round(x, 2)       *)
(* leaves (50 percent is 5000).  Time is counted in seconds.               *)
(* A Python None / a missing key is the empty sequence <<>>, a present     *)
(* value v is <<v>>.                                                       *)
(***************************************************************************)
EXTENDS Integers, Sequences, FiniteSets, TLC

(***************************************************************************)
(* Program constants                                                       *)
(***************************************************************************)
MIN_SALE_PRICE == 7500
MIN_PERCENT_OFF_LOW_TIER == 50
MIN_DOLLAR_SAVINGS == 4000
MAX_CACHE_AGE_SECONDS == 300
MAX_ATTEMPTS == 3

(***************************************************************************)
(* Bounds of the model                                                     *)
(***************************************************************************)
\* number of interactive callers (slash commands) beside the timer
MaxCallers == 1
\* number of feeds of FEED_NAMES a cycle iterates over
MaxFeeds == 2
\* largest number of items in one feed response
MaxItems == 1
\* number of clock ticks the model follows
MaxTicks == 2

None == <<>>
Some(v) == <<v>>

\* the declared feed list, cut to the first MaxFeeds names
ALL_FEED_NAMES ==
  <<"All", "Clearance", "Computers", "Electronics", "Featured", "Home",
    "Gourmet", "Shirts", "Sports", "Tools", "Wootoff">>
FEED_NAMES ==
  [i \in 1..(IF MaxFeeds < Len(ALL_FEED_NAMES) THEN MaxFeeds ELSE Len(ALL_FEED_NAMES))
     |-> ALL_FEED_NAMES[i]]

(***************************************************************************)
(* Raw items of a feed response.                                           *)
(*   OfferId   : <<>> (key missing) or <<id>>                              *)
(*   SalePrice, ListPrice : a price sub-object, see PriceObjs              *)
(*   IsSoldOut : <<>> (key missing) or <<BOOLEAN>>                         *)
(* A price sub-object is                                                   *)
(*   [k |-> "absent"]   key missing or null                                *)
(*   [k |-> "empty"]    {} (falsy)                                         *)
(*   [k |-> "nondict"]  a truthy value without .get, e.g. a string         *)
(*   [k |-> "obj", min |-> m]  an object; m is its Minimum:                *)
(*        [t |-> "none"] missing, [t |-> "str"] non-numeric,               *)
(*        [t |-> "num", v |-> cents]                                       *)
(***************************************************************************)
NoMin == [t |-> "none", v |-> 0]
StrMin == [t |-> "str", v |-> 0]
Num(c) == [t |-> "num", v |-> c]
Obj(m) == [k |-> "obj", min |-> m]
AbsentObj == [k |-> "absent", min |-> NoMin]
EmptyObj == [k |-> "empty", min |-> NoMin]
NonDictObj == [k |-> "nondict", min |-> NoMin]

Raw(id, sale, list, sold) ==
  [OfferId |-> id, SalePrice |-> sale, ListPrice |-> list, IsSoldOut |-> sold]

\* round(n / d) to the nearest integer, ties to the even one (Python's round)
RoundHalfEven(n, d) ==
  LET q == n \div d
      r == n % d
  IN  IF 2 * r > d THEN q + 1
      ELSE IF 2 * r < d THEN q
      ELSE IF q % 2 = 0 THEN q ELSE q + 1

\* truthiness of a price sub-object in `if sale_price_data and list_price_data`
Truthy(o) == o.k \in {"nondict", "obj"}

\* isinstance(m, (int, float))
IsNumber(m) == m.t = "num"

\* the guard of lines 147-149
PricesUsable(sale_min, list_min) ==
  /\ IsNumber(sale_min)
  /\ IsNumber(list_min)
  /\ list_min.v > 0
  /\ list_min.v > sale_min.v

\* the record of lines 127-137, before the prices are looked at
DefaultDeal(raw, feed_name) ==
  [offer_id |-> IF raw.OfferId = None THEN "N/A" ELSE raw.OfferId[1],
   feed_name |-> feed_name,
   sale_price |-> None,
   list_price |-> None,
   discount_percent |-> 0,
   savings_amount |-> 0,
   is_sold_out |-> IF raw.IsSoldOut = None THEN TRUE ELSE raw.IsSoldOut[1],
   status |-> None]

process_deal_data(raw, feed_name) ==
  LET deal == DefaultDeal(raw, feed_name)
      sale_price_data == raw.SalePrice
      list_price_data == raw.ListPrice
  IN  IF Truthy(sale_price_data) /\ Truthy(list_price_data)
      THEN IF sale_price_data.k = "nondict" \/ list_price_data.k = "nondict"
           THEN deal  \* .get raises AttributeError, caught at line 155
           ELSE LET sale_min == sale_price_data.min
                    list_min == list_price_data.min
                IN  IF PricesUsable(sale_min, list_min)
                    THEN [deal EXCEPT
                            !.sale_price = Some(sale_min.v),
                            !.list_price = Some(list_min.v),
                            !.discount_percent =
                               RoundHalfEven((list_min.v - sale_min.v) * 10000, list_min.v),
                            !.savings_amount = list_min.v - sale_min.v]
                    ELSE deal
      ELSE deal

passes_strict_rules_lax(deal) ==
  IF deal.sale_price = None \/ deal.is_sold_out THEN FALSE
  ELSE IF deal.sale_price[1] < MIN_SALE_PRICE THEN FALSE
  ELSE IF deal.savings_amount <= MIN_DOLLAR_SAVINGS THEN FALSE
  ELSE IF deal.discount_percent < MIN_PERCENT_OFF_LOW_TIER * 100 THEN FALSE
  ELSE TRUE

passes_strict_rules(deal) ==
  IF deal.sale_price = None \/ deal.is_sold_out THEN FALSE
  ELSE IF deal.sale_price[1] < MIN_SALE_PRICE THEN FALSE
  ELSE IF deal.savings_amount < MIN_DOLLAR_SAVINGS THEN FALSE
  ELSE IF deal.discount_percent < MIN_PERCENT_OFF_LOW_TIER * 100 THEN FALSE
  ELSE TRUE

(***************************************************************************)
(* fetch_feed_data.  One attempt of the loop of lines 103-118 ends in one  *)
(* of these outcomes:                                                      *)
(*   "ok"        200, the body is a JSON object with an Items list         *)
(*   "nokey"     200, the body is a JSON object without Items              *)
(*   "malformed" 200, the body is not JSON: response.json() raises         *)
(*               requests' JSONDecodeError, a RequestException             *)
(*   "nonobject" 200, the body is JSON but no object (an array, a number): *)
(*               .get raises AttributeError, which no except clause names  *)
(*   "r429"      429                                                       *)
(*   "httperr"   another 4xx/5xx status: raise_for_status() raises         *)
(*               HTTPError, a RequestException                             *)
(*   "nonerr"    another status below 400: raise_for_status() returns      *)
(*   "timeout"   requests.exceptions.Timeout                               *)
(*   "transport" another RequestException (ConnectionError, ...)           *)
(***************************************************************************)
Outcomes ==
  {"ok", "nokey", "malformed", "nonobject", "r429", "httperr", "nonerr",
   "timeout", "transport"}

\* what the loop body does on an outcome
AttemptAction_nobackoff(o) ==
  CASE o = "ok" -> "return_items"
    [] o = "nokey" -> "return_default"
    [] o = "malformed" -> "break"
    [] o = "nonobject" -> "raise"
    [] o = "r429" -> "next"
    [] o = "httperr" -> "break"
    [] o = "nonerr" -> "next"
    [] o = "timeout" -> "next"
    [] o = "transport" -> "break"

AttemptAction_uncaught(o) ==
  CASE o = "ok" -> "return_items"
    [] o = "nokey" -> "return_default"
    [] o = "malformed" -> "break"
    [] o = "nonobject" -> "raise"
    [] o = "r429" -> "sleep_next"
    [] o = "httperr" -> "break"
    [] o = "nonerr" -> "next"
    [] o = "timeout" -> "next"
    [] o = "transport" -> "raise"

AttemptAction(o) ==
  CASE o = "ok" -> "return_items"
    [] o = "nokey" -> "return_default"
    [] o = "malformed" -> "break"
    [] o = "nonobject" -> "raise"
    [] o = "r429" -> "sleep_next"
    [] o = "httperr" -> "break"
    [] o = "nonerr" -> "next"
    [] o = "timeout" -> "next"
    [] o = "transport" -> "break"

Request(attempt) == [e |-> "request", attempt |-> attempt]
\* line 109, in tenths of a second: the wait after a 429 on `attempt` lasts
\* 2**attempt seconds and a jitter drawn from [JITTER_LOW, JITTER_HIGH]
JITTER_LOW == 5
JITTER_HIGH == 10
Sleep(attempt) ==
  [e |-> "sleep", attempt |-> attempt,
   low |-> 10 * (2 ^ attempt) + JITTER_LOW,
   high |-> 10 * (2 ^ attempt) + JITTER_HIGH]
Returned(items, trace) == [kind |-> "list", items |-> items, trace |-> trace]
Raised(trace) == [kind |-> "raise", items |-> <<>>, trace |-> trace]

\* the loop from `attempt` (0-based) on; outs[attempt + 1] is its outcome,
\* items the Items list of a well-formed 200 body
RECURSIVE FetchFrom(_, _, _, _)
FetchFrom(outs, items, attempt, trace) ==
  IF attempt >= MAX_ATTEMPTS THEN Returned(<<>>, trace)
  ELSE LET act == AttemptAction(outs[attempt + 1])
           tr == Append(trace, Request(attempt))
       IN  CASE act = "return_items" -> Returned(items, tr)
             [] act = "return_default" -> Returned(<<>>, tr)
             [] act = "raise" -> Raised(tr)
             [] act = "break" -> Returned(<<>>, tr)
             [] act = "sleep_next" ->
                  FetchFrom(outs, items, attempt + 1, Append(tr, Sleep(attempt)))
             [] act = "next" -> FetchFrom(outs, items, attempt + 1, tr)

fetch_feed_data(outs, items) == FetchFrom(outs, items, 0, <<>>)

(***************************************************************************)
(* Inputs                                                                  *)
(***************************************************************************)
PriceValues == {0 - 500, 0, 7499, 7500, 7501, 11500, 15000}
Minimums == {NoMin, StrMin} \cup {Num(c) : c \in PriceValues}
PriceObjs == {AbsentObj, EmptyObj, NonDictObj} \cup {Obj(m) : m \in Minimums}
RawItems ==
  {Raw(id, sale, list, sold) :
     id \in {None, Some("a")}, sale \in PriceObjs, list \in PriceObjs,
     sold \in {None, Some(TRUE), Some(FALSE)}}

\* deal records around every threshold of passes_strict_rules
DealInputs ==
  [offer_id : {"a"}, feed_name : {FEED_NAMES[1]},
   sale_price : {None, Some(MIN_SALE_PRICE - 1), Some(MIN_SALE_PRICE)},
   list_price : {Some(20000)},
   discount_percent : {MIN_PERCENT_OFF_LOW_TIER * 100 - 1, MIN_PERCENT_OFF_LOW_TIER * 100},
   savings_amount : {MIN_DOLLAR_SAVINGS - 1, MIN_DOLLAR_SAVINGS},
   is_sold_out : BOOLEAN,
   status : {None}]

\* the raw items of the refresh cycles: "a" at 80.00 and at 75.00 of 200.00,
\* and "a" at 50.00, which fails the filter; "b" at 80.00 of 160.00
ItemA80 == Raw(Some("a"), Obj(Num(8000)), Obj(Num(20000)), Some(FALSE))
ItemA75 == Raw(Some("a"), Obj(Num(7500)), Obj(Num(20000)), Some(FALSE))
ItemB80 == Raw(Some("b"), Obj(Num(8000)), Obj(Num(16000)), Some(FALSE))
ItemA50 == Raw(Some("a"), Obj(Num(5000)), Obj(Num(20000)), Some(FALSE))

SeqsUpTo(S, n) == UNION {[1..k -> S] : k \in 0..n}

(***************************************************************************)
(* The historical-low store.  historical_lows_cache maps every identifier  *)
(* to <<>> (no record) or <<lowest price>>.  The persistence file is       *)
(* absent, holds a table, or holds text json.load rejects.                 *)
(***************************************************************************)
OfferIds == {"a", "b", "N/A"}
Prices == {c \in PriceValues : c >= MIN_SALE_PRICE} \cup {8000}
EmptyLows == [k \in OfferIds |-> None]
LowTables == [OfferIds -> {None} \cup {Some(c) : c \in Prices}]

FileAbsent == [st |-> "absent", data |-> EmptyLows]
FileCorrupt == [st |-> "corrupt", data |-> EmptyLows]
FileOf(table) == [st |-> "ok", data |-> table]

\* what a write of the file can do: succeed, fail in open() and leave the
\* file as it was, or fail in json.dump() after open() has truncated it
WriteOutcomes == {"ok", "openfail", "dumpfail"}

\* lines 44-56; the result is the new historical_lows_cache
load_historical_lows(lows, file) ==
  IF file.st = "absent" THEN lows
  ELSE IF file.st = "ok" THEN file.data
  ELSE EmptyLows

\* lines 59-67; w is what the write does
save_historical_low(lows, file, offer_id, price, w) ==
  LET new == [lows EXCEPT ![offer_id] = Some(price)]
  IN  [lows |-> new,
       file |-> CASE w = "ok" -> FileOf(new)
                  [] w = "openfail" -> file
                  [] w = "dumpfail" -> FileCorrupt]

NEW_LOW == [label |-> "NEW LOW", was |-> None]
PRICE_DROP(was) == [label |-> "PRICE DROP", was |-> Some(was)]
GREAT_DEAL == [label |-> "GREAT DEAL", was |-> None]

\* deal['sale_price'] < current_low, where a missing record reads as +infinity
BelowLow_orequal(price, current_low) ==
  current_low = None \/ price <= current_low[1]

BelowLow(price, current_low) ==
  current_low = None \/ price < current_low[1]

\* lines 378-391 for one filter-passing deal: the labelled deal and the store
Track(lows, file, deal, w) ==
  LET offer_id == deal.offer_id
      current_low == lows[offer_id]
  IN  IF BelowLow(deal.sale_price[1], current_low)
      THEN LET saved == save_historical_low(lows, file, offer_id, deal.sale_price[1], w)
           IN  [lows |-> saved.lows, file |-> saved.file,
                deal |-> [deal EXCEPT !.status =
                            Some(IF current_low = None THEN NEW_LOW
                                 ELSE PRICE_DROP(current_low[1]))]]
      ELSE [lows |-> lows, file |-> file,
            deal |-> [deal EXCEPT !.status = Some(GREAT_DEAL)]]

\* lines 374-391 without the append of line 391
Accept_newlowsonly(st, raw, feed_name, w) ==
  LET deal == process_deal_data(raw, feed_name)
  IN  IF passes_strict_rules(deal)
      THEN LET t == Track(st.lows, st.file, deal, w)
           IN  [lows |-> t.lows, file |-> t.file,
                acc |-> IF t.deal.status = Some(GREAT_DEAL) THEN st.acc
                        ELSE Append(st.acc, t.deal)]
      ELSE st

\* lines 375-391 for one raw item; st is [lows, file, acc]
Accept(st, raw, feed_name, w) ==
  LET deal == process_deal_data(raw, feed_name)
  IN  IF passes_strict_rules(deal)
      THEN LET t == Track(st.lows, st.file, deal, w)
           IN  [lows |-> t.lows, file |-> t.file, acc |-> Append(st.acc, t.deal)]
      ELSE st

\* the loop of line 374 from item i on; ws[i] is what the i-th write does
RECURSIVE ProcessItems(_, _, _, _, _)
ProcessItems(st, deals_data, feed_name, ws, i) ==
  IF i > Len(deals_data) THEN st
  ELSE ProcessItems(Accept(st, deals_data[i], feed_name, ws[i]),
                    deals_data, feed_name, ws, i + 1)

\* list.sort(key=discount_percent, reverse=True): stable, descending
RECURSIVE InsertDesc_unstable(_, _)
InsertDesc_unstable(sorted, d) ==
  IF sorted = <<>> THEN <<d>>
  ELSE IF Head(sorted).discount_percent > d.discount_percent
       THEN <<Head(sorted)>> \o InsertDesc_unstable(Tail(sorted), d)
       ELSE <<d>> \o sorted

RECURSIVE InsertDesc(_, _)
InsertDesc(sorted, d) ==
  IF sorted = <<>> THEN <<d>>
  ELSE IF Head(sorted).discount_percent >= d.discount_percent
       THEN <<Head(sorted)>> \o InsertDesc(Tail(sorted), d)
       ELSE <<d>> \o sorted

RECURSIVE SortDesc(_)
SortDesc(deals) ==
  IF deals = <<>> THEN <<>>
  ELSE InsertDesc(SortDesc(SubSeq(deals, 1, Len(deals) - 1)), deals[Len(deals)])

(***************************************************************************)
(* The callers.  Process 0 is the auto_refresh_deals timer, 1..MaxCallers  *)
(* are slash-command handlers.  The event loop runs one coroutine at a     *)
(* time, so the code between two awaits is one step.                       *)
(***************************************************************************)
TIMER == 0
Procs == 0..MaxCallers
NumFeeds == Len(FEED_NAMES)
\* seconds per clock tick
TickSeconds == 150
\* the clock at startup: time.time() is far beyond the freshness window
StartTime == MAX_CACHE_AGE_SECONDS

\* the surroundings of the concurrent callers: a fetch succeeds, fails on a
\* hard error status or raises; the disk takes every write
\* line 393, in tenths of a second: the pacing sleep after a feed lasts
\* between PACING_LOW and PACING_HIGH
PACING_LOW == 11
PACING_HIGH == 13

CallersEnv ==
  [outs |-> {<<"ok", "ok", "ok">>, <<"httperr", "ok", "ok">>, <<"nonobject", "ok", "ok">>},
   items |-> {ItemA80},
   max_items |-> MaxItems,
   writes |-> {"ok"},
   paces |-> {PACING_LOW}]

\* the surroundings of the timer on its own: every way a fetch can end, and
\* writes of the file that fail
TimerEnv ==
  [outs |-> {<<"ok", "ok", "ok">>, <<"r429", "timeout", "ok">>,
             <<"httperr", "ok", "ok">>, <<"transport", "ok", "ok">>,
             <<"r429", "timeout", "r429">>, <<"nonobject", "ok", "ok">>},
   items |-> {ItemA80, ItemA75, ItemA50},
   max_items |-> MaxItems,
   writes |-> WriteOutcomes,
   paces |-> {PACING_LOW}]

\* largest number of items in one feed response where the order of the
\* items is looked at
MaxBody == 2

\* an item that passes the filter and has no OfferId
ItemNoId == Raw(None, Obj(Num(8000)), Obj(Num(20000)), Some(FALSE))

\* the surroundings of a cycle whose fetches all succeed: responses of up
\* to MaxBody items, among them the same item twice and items without an
\* identifier, and every length of the pacing sleep
OrderEnv ==
  [outs |-> {<<"ok", "ok", "ok">>},
   items |-> {ItemA80, ItemA75, ItemB80, ItemNoId},
   max_items |-> MaxBody,
   writes |-> {"ok"},
   paces |-> PACING_LOW..PACING_HIGH]

\* the bodies a call with these outcomes can be answered with: a 200 with a
\* well-formed body carries an Items list
BodiesOf(outs, items, max_items) ==
  IF \E i \in 1..MAX_ATTEMPTS : outs[i] = "ok" THEN SeqsUpTo(items, max_items) ELSE {<<>>}

\* the fetch fails in the sense of a feed failure: a hard error status or a
\* transport error after retries, or every attempt a 429 or a timeout
FeedFails(outs) ==
  \/ \A i \in 1..MAX_ATTEMPTS : outs[i] \in {"r429", "timeout"}
  \/ \E i \in 1..MAX_ATTEMPTS :
       /\ outs[i] \in {"httperr", "transport"}
       /\ \A j \in 1..(i - 1) : outs[j] \in {"r429", "timeout"}

(***************************************************************************)
(* Pagination.  A deal of a view is the number of characters of its        *)
(* formatted block (deal_content, lines 200-203), a title the number of    *)
(* its characters.  A message is the number of its characters, the         *)
(* positions in the list (from 1) of the deals it shows, and the number    *)
(* its truncation notice gives, 0 without a notice.                        *)
(***************************************************************************)
MAX_DEALS_PER_PAGE == 10
MAX_LENGTH == 1950
\* the limit the docstring of format_deal_message promises to keep
MESSAGE_LIMIT == 2000
\* the characters of the header beside the title and the two page numbers
HEADER_CHARS == 23
\* the characters of the truncation notice beside its number
NOTICE_CHARS == 58
\* the characters of the text returned for an empty list
EMPTY_CHARS == 72

\* largest number of deals of a view
MaxDeals == 23

\* len(str(n)) of a number n >= 0
RECURSIVE Digits(_)
Digits(n) == IF n < 10 THEN 1 ELSE 1 + Digits(n \div 10)

Min(a, b) == IF a < b THEN a ELSE b

TotalPages_floor(n) == n \div MAX_DEALS_PER_PAGE

\* lines 227-228 and 534-535
TotalPages(n) == (n + MAX_DEALS_PER_PAGE - 1) \div MAX_DEALS_PER_PAGE

\* the loop of lines 198-212 from position k of the list on; last is the
\* position of the last deal of the page, first that of its first deal
RECURSIVE AddDeals(_, _, _, _, _, _)
AddDeals(deals, first, last, k, chars, items) ==
  IF k > last THEN [chars |-> chars, items |-> items, omitted |-> 0]
  ELSE IF chars + deals[k] > MAX_LENGTH
       THEN LET remaining_deals == (last - first + 1) - Len(items)
            IN  IF remaining_deals > 0
                THEN [chars |-> chars + NOTICE_CHARS + Digits(remaining_deals),
                      items |-> items, omitted |-> remaining_deals]
                ELSE [chars |-> chars, items |-> items, omitted |-> 0]
       ELSE AddDeals(deals, first, last, k + 1, chars + deals[k], Append(items, k))

format_deal_message(deals, page, pages, title) ==
  LET start_index == page * MAX_DEALS_PER_PAGE
      end_index == start_index + MAX_DEALS_PER_PAGE
      header == HEADER_CHARS + title + Digits(page + 1) + Digits(pages)
  IN  IF deals = <<>>
      THEN [chars |-> EMPTY_CHARS, items |-> <<>>, omitted |-> 0]
      ELSE AddDeals(deals, start_index + 1, Min(end_index, Len(deals)),
                    start_index + 1, header, <<>>)

NextPage_offbyone(page, pages) == IF page < pages THEN page + 1 ELSE page

\* lines 267-268
NextPage(page, pages) == IF page < pages - 1 THEN page + 1 ELSE page

PreviousPage_wraps(page, pages) == IF page > 0 THEN page - 1 ELSE pages - 1

\* lines 260-261
PreviousPage(page, pages) == IF page > 0 THEN page - 1 ELSE page

\* the deal lists and titles of the views: up to MaxDeals deals of one
\* size, short blocks or blocks with long titles and links
DealChars == {120, 380}
TitleChars == {25, 40}
ViewLists == {[i \in 1..n |-> c] : n \in 0..MaxDeals, c \in DealChars}

VARIABLES
  now,                    \* time.time()
  all_qualified_deals,    \* self.all_qualified_deals, the published list
  last_fetch_time,        \* self.last_fetch_time
  historical_lows_cache,  \* the module-level dict
  file,                   \* historical_lows.json
  pc,          \* per caller: "idle", "fetching" (awaiting run_in_executor),
               \* "sleeping" (awaiting the pacing sleep), "cached", "completed"
               \* (the call returned), "raised" (the call raised)
  force,       \* per caller: force_refresh of its call
  feed,        \* per caller: index of the feed of the for loop
  acc,         \* per caller: the local list all_qualified_deals
  ret,         \* per caller: the list its call returned
  got,         \* per caller: the raw items its cycle has received, with feeds
  log,         \* per caller: per feed fetched, whether the fetch failed
  snap,        \* per caller: the published list and time when its call began
  pace,        \* per caller: the length of the pacing sleep it awaits, else 0
  seen,        \* per identifier: the lowest filter-passing price observed
  d_stage,   \* "raw", "deal", "judged": how far the deal under test has got
  d_raw,     \* the raw item under test, <<>> when a deal record was given
  d_deal,    \* its deal record
  d_passed,  \* the verdict of passes_strict_rules on d_deal
  f_stage,   \* "call", "done"
  f_outs,    \* the outcome of each attempt of the call under test
  f_items,   \* the Items list a well-formed 200 body carries
  f_result,  \* what the call returned or raised
  t_stage,   \* "deal", "tracked"
  t_lows,    \* the store the deal under test is tracked against
  t_deal,    \* the filter-passing deal under test
  t_out,     \* what Track made of them
  view_deals,    \* DealsView.deals
  view_title,    \* DealsView.title
  current_page,  \* DealsView.current_page
  total_pages,   \* DealsView.total_pages
  view_op,       \* "built", "next", "previous": the last operation on the view
  message,       \* the message last formatted for the view
  starts,      \* SpecRace: the number of cycles begun so far
  ticket,      \* SpecRace: per caller, the rank in time of the start of its cycle
  pub_ticket   \* SpecRace: that rank of the cycle whose list is published, else 0

sharedVars == <<now, all_qualified_deals, last_fetch_time, historical_lows_cache, file>>
procVars == <<pc, force, feed, acc, ret, got, log, snap, pace, seen>>
cycleVars == <<sharedVars, procVars>>
dealVars == <<d_stage, d_raw, d_deal, d_passed>>
fetchVars == <<f_stage, f_outs, f_items, f_result>>
trackVars == <<t_stage, t_lows, t_deal, t_out>>
viewVars == <<view_deals, view_title, current_page, total_pages, view_op, message>>
raceVars == <<starts, ticket, pub_ticket>>
vars == <<cycleVars, dealVars, fetchVars, trackVars, viewVars, raceVars>>

NoRaw == Raw(None, AbsentObj, AbsentObj, None)
NoDeal == DefaultDeal(NoRaw, FEED_NAMES[1])
DealIdle ==
  /\ d_stage = "judged"
  /\ d_raw = None
  /\ d_deal = NoDeal
  /\ d_passed = FALSE
FetchIdle ==
  /\ f_stage = "done"
  /\ f_outs = [i \in 1..MAX_ATTEMPTS |-> "transport"]
  /\ f_items = <<>>
  /\ f_result = Returned(<<>>, <<Request(0)>>)
NoTrack == [lows |-> EmptyLows, file |-> FileAbsent, deal |-> NoDeal]
TrackIdle ==
  /\ t_stage = "tracked"
  /\ t_lows = EmptyLows
  /\ t_deal = NoDeal
  /\ t_out = NoTrack
ViewIdle ==
  /\ view_deals = <<>>
  /\ view_title = 0
  /\ current_page = 0
  /\ total_pages = 0
  /\ view_op = "built"
  /\ message = format_deal_message(<<>>, 0, 0, 0)
RaceIdle ==
  /\ starts = 0
  /\ ticket = [p \in Procs |-> 0]
  /\ pub_ticket = 0
NoSnap == [deals |-> <<>>, time |-> 0]
CycleIdle ==
  /\ now = StartTime
  /\ all_qualified_deals = <<>>
  /\ last_fetch_time = 0
  /\ historical_lows_cache = EmptyLows
  /\ file = FileAbsent
  /\ pc = [p \in Procs |-> "idle"]
  /\ force = [p \in Procs |-> FALSE]
  /\ feed = [p \in Procs |-> 0]
  /\ acc = [p \in Procs |-> <<>>]
  /\ ret = [p \in Procs |-> <<>>]
  /\ got = [p \in Procs |-> <<>>]
  /\ log = [p \in Procs |-> <<>>]
  /\ snap = [p \in Procs |-> NoSnap]
  /\ pace = [p \in Procs |-> 0]
  /\ seen = EmptyLows

(***************************************************************************)
(* process_deal_data and passes_strict_rules on their own                  *)
(***************************************************************************)
InitDeal ==
  /\ \/ /\ d_stage = "raw"
        /\ d_raw \in {Some(r) : r \in RawItems}
        /\ d_deal = NoDeal
     \/ /\ d_stage = "deal"
        /\ d_raw = None
        /\ d_deal \in DealInputs
  /\ d_passed = FALSE
  /\ FetchIdle
  /\ TrackIdle
  /\ CycleIdle
  /\ ViewIdle
  /\ RaceIdle

Normalize ==
  /\ d_stage = "raw"
  /\ d_deal' = process_deal_data(d_raw[1], FEED_NAMES[1])
  /\ d_stage' = "deal"
  /\ UNCHANGED <<d_raw, d_passed>>

Filter ==
  /\ d_stage = "deal"
  /\ d_passed' = passes_strict_rules(d_deal)
  /\ d_stage' = "judged"
  /\ UNCHANGED <<d_raw, d_deal>>

NextDeal ==
  \/ Normalize /\ UNCHANGED <<cycleVars, fetchVars, trackVars, viewVars, raceVars>>
  \/ Filter /\ UNCHANGED <<cycleVars, fetchVars, trackVars, viewVars, raceVars>>

SpecDeal == InitDeal /\ [][NextDeal]_vars

(***************************************************************************)
(* fetch_feed_data on its own                                              *)
(***************************************************************************)
InitFetch ==
  /\ f_stage = "call"
  /\ f_outs \in [1..MAX_ATTEMPTS -> Outcomes]
  /\ f_items \in {<<>>, <<ItemA80>>}
  /\ f_result = Returned(<<>>, <<>>)
  /\ DealIdle
  /\ TrackIdle
  /\ CycleIdle
  /\ ViewIdle
  /\ RaceIdle

Fetch ==
  /\ f_stage = "call"
  /\ f_result' = fetch_feed_data(f_outs, f_items)
  /\ f_stage' = "done"
  /\ UNCHANGED <<f_outs, f_items>>

NextFetch == Fetch /\ UNCHANGED <<cycleVars, dealVars, trackVars, viewVars, raceVars>>

SpecFetch == InitFetch /\ [][NextFetch]_vars

(***************************************************************************)
(* The tracker (lines 378-391) on its own                                  *)
(***************************************************************************)
PassingDeals ==
  {process_deal_data(r, FEED_NAMES[1]) :
     r \in {x \in RawItems : passes_strict_rules(process_deal_data(x, FEED_NAMES[1]))}}
  \cup {process_deal_data(r, FEED_NAMES[1]) : r \in {ItemA80, ItemA75, ItemB80}}

InitTrack ==
  /\ t_stage = "deal"
  /\ t_lows \in LowTables
  /\ t_deal \in PassingDeals
  /\ t_out = NoTrack
  /\ DealIdle
  /\ FetchIdle
  /\ CycleIdle
  /\ ViewIdle
  /\ RaceIdle

Evaluate ==
  /\ t_stage = "deal"
  /\ \E w \in WriteOutcomes : t_out' = Track(t_lows, FileOf(t_lows), t_deal, w)
  /\ t_stage' = "tracked"
  /\ UNCHANGED <<t_lows, t_deal>>

NextTrack == Evaluate /\ UNCHANGED <<cycleVars, dealVars, fetchVars, viewVars, raceVars>>

SpecTrack == InitTrack /\ [][NextTrack]_vars

(***************************************************************************)
(* The refresh cycles                                                      *)
(***************************************************************************)
Init ==
  /\ CycleIdle
  /\ DealIdle
  /\ FetchIdle
  /\ TrackIdle
  /\ ViewIdle
  /\ RaceIdle

\* the test of lines 360-361
CacheIsFresh_inverted(force_refresh, time, last) ==
  ~force_refresh /\ (time - last > MAX_CACHE_AGE_SECONDS)

CacheIsFresh(force_refresh, time, last) ==
  ~force_refresh /\ (time - last < MAX_CACHE_AGE_SECONDS)

\* the timer always forces (line 322); /refresh forces (line 489), /deals,
\* /category and /search do not (lines 525, 568, 614)
ForceChoices(p) == IF p = TIMER THEN {TRUE} ELSE BOOLEAN

Snapshot == [deals |-> all_qualified_deals, time |-> last_fetch_time]

\* lines 360-362: the call returns the published list at once
CallCached(p, force_refresh) ==
  /\ pc[p] = "idle"
  /\ CacheIsFresh(force_refresh, now, last_fetch_time)
  /\ pc' = [pc EXCEPT ![p] = "cached"]
  /\ force' = [force EXCEPT ![p] = force_refresh]
  /\ ret' = [ret EXCEPT ![p] = all_qualified_deals]
  /\ snap' = [snap EXCEPT ![p] = Snapshot]
  /\ UNCHANGED <<sharedVars, feed, acc, got, log, pace, seen>>

\* lines 364-372: the cycle starts and awaits the fetch of the first feed
StartCycle_resets(p, force_refresh) ==
  /\ pc[p] = "idle"
  /\ ~CacheIsFresh(force_refresh, now, last_fetch_time)
  /\ historical_lows_cache' = load_historical_lows(historical_lows_cache, file)
  /\ all_qualified_deals' = <<>>
  /\ pc' = [pc EXCEPT ![p] = "fetching"]
  /\ force' = [force EXCEPT ![p] = force_refresh]
  /\ feed' = [feed EXCEPT ![p] = 1]
  /\ acc' = [acc EXCEPT ![p] = <<>>]
  /\ snap' = [snap EXCEPT ![p] = Snapshot]
  /\ UNCHANGED <<now, last_fetch_time, file, ret, got, log, pace, seen>>

StartCycle(p, force_refresh) ==
  /\ pc[p] = "idle"
  /\ ~CacheIsFresh(force_refresh, now, last_fetch_time)
  /\ historical_lows_cache' = load_historical_lows(historical_lows_cache, file)
  /\ pc' = [pc EXCEPT ![p] = "fetching"]
  /\ force' = [force EXCEPT ![p] = force_refresh]
  /\ feed' = [feed EXCEPT ![p] = 1]
  /\ acc' = [acc EXCEPT ![p] = <<>>]
  /\ snap' = [snap EXCEPT ![p] = Snapshot]
  /\ UNCHANGED <<now, all_qualified_deals, last_fetch_time, file, ret, got, log, pace, seen>>

\* the lowest of a recorded low and a price
MinLow(low, price) == IF low = None \/ price < low[1] THEN Some(price) ELSE low

\* seen after the filter-passing items of deals_data, from item i on
RECURSIVE Observe(_, _, _)
Observe(lowest, deals_data, i) ==
  IF i > Len(deals_data) THEN lowest
  ELSE LET deal == process_deal_data(deals_data[i], FEED_NAMES[1])
       IN  Observe(IF passes_strict_rules(deal)
                   THEN [lowest EXCEPT ![deal.offer_id] = MinLow(@, deal.sale_price[1])]
                   ELSE lowest,
                   deals_data, i + 1)

\* lines 371-393: the fetch of the feed is back; its items are processed up
\* to the pacing sleep, or the exception of the fetch leaves the call.
\* env is what the surroundings can do: the attempt outcomes of a fetch
\* (env.outs), the items of a response (env.items) and the outcomes of a
\* write of the file (env.writes)
FeedFetched(p, env) ==
  /\ pc[p] = "fetching"
  /\ \E outs \in env.outs :
     \E body \in BodiesOf(outs, env.items, env.max_items) :
     \E ws \in [1..Len(body) -> env.writes] :
     \E delay \in env.paces :
       LET r == fetch_feed_data(outs, body)
           st == ProcessItems([lows |-> historical_lows_cache, file |-> file,
                               acc |-> acc[p]],
                              r.items, FEED_NAMES[feed[p]], ws, 1)
       IN  /\ log' = [log EXCEPT ![p] = Append(@, FeedFails(outs))]
           /\ IF r.kind = "raise"
              THEN /\ pc' = [pc EXCEPT ![p] = "raised"]
                   /\ UNCHANGED <<historical_lows_cache, file, acc, got, seen, pace>>
              ELSE /\ pc' = [pc EXCEPT ![p] = "sleeping"]
                   /\ historical_lows_cache' = st.lows
                   /\ file' = st.file
                   /\ acc' = [acc EXCEPT ![p] = st.acc]
                   /\ got' = [got EXCEPT ![p] =
                                @ \o [i \in 1..Len(r.items) |->
                                        [feed |-> feed[p], raw |-> r.items[i]]]]
                   /\ seen' = Observe(seen, r.items, 1)
                   /\ pace' = [pace EXCEPT ![p] = delay]
  /\ UNCHANGED <<now, all_qualified_deals, last_fetch_time, force, feed, ret, snap>>

\* line 393 and line 370: the pacing sleep is over and another feed follows
NextFeed_skips(p) ==
  /\ pc[p] = "sleeping"
  /\ feed[p] < NumFeeds
  /\ feed' = [feed EXCEPT ![p] = @ + 2]
  /\ pc' = [pc EXCEPT ![p] = "fetching"]
  /\ pace' = [pace EXCEPT ![p] = 0]
  /\ UNCHANGED <<sharedVars, force, acc, ret, got, log, snap, seen>>

NextFeed(p) ==
  /\ pc[p] = "sleeping"
  /\ feed[p] < NumFeeds
  /\ feed' = [feed EXCEPT ![p] = @ + 1]
  /\ pc' = [pc EXCEPT ![p] = "fetching"]
  /\ pace' = [pace EXCEPT ![p] = 0]
  /\ UNCHANGED <<sharedVars, force, acc, ret, got, log, snap, seen>>

\* lines 393-401: the last pacing sleep is over; sort, publish, return
Publish(p) ==
  /\ pc[p] = "sleeping"
  /\ feed[p] = NumFeeds
  /\ all_qualified_deals' = SortDesc(acc[p])
  /\ last_fetch_time' = now
  /\ ret' = [ret EXCEPT ![p] = all_qualified_deals']
  /\ pc' = [pc EXCEPT ![p] = "completed"]
  /\ pace' = [pace EXCEPT ![p] = 0]
  /\ UNCHANGED <<now, historical_lows_cache, file, force, feed, acc, got, log, snap, seen>>

\* the handler that made the call ends; its locals are gone
Finish(p) ==
  /\ pc[p] \in {"cached", "completed", "raised"}
  /\ pc' = [pc EXCEPT ![p] = "idle"]
  /\ force' = [force EXCEPT ![p] = FALSE]
  /\ feed' = [feed EXCEPT ![p] = 0]
  /\ acc' = [acc EXCEPT ![p] = <<>>]
  /\ ret' = [ret EXCEPT ![p] = <<>>]
  /\ got' = [got EXCEPT ![p] = <<>>]
  /\ log' = [log EXCEPT ![p] = <<>>]
  /\ snap' = [snap EXCEPT ![p] = NoSnap]
  /\ UNCHANGED <<sharedVars, pace, seen>>

\* the clock advances
Tick ==
  /\ now < StartTime + MaxTicks * TickSeconds
  /\ now' = now + TickSeconds
  /\ UNCHANGED <<all_qualified_deals, last_fetch_time, historical_lows_cache, file, procVars>>

Next ==
  \/ \E p \in Procs : \E f \in ForceChoices(p) :
       CallCached(p, f) /\ UNCHANGED <<dealVars, fetchVars, trackVars, viewVars, raceVars>>
  \/ \E p \in Procs : \E f \in ForceChoices(p) :
       StartCycle(p, f) /\ UNCHANGED <<dealVars, fetchVars, trackVars, viewVars, raceVars>>
  \/ \E p \in Procs : FeedFetched(p, CallersEnv) /\ UNCHANGED <<dealVars, fetchVars, trackVars, viewVars, raceVars>>
  \/ \E p \in Procs : NextFeed(p) /\ UNCHANGED <<dealVars, fetchVars, trackVars, viewVars, raceVars>>
  \/ \E p \in Procs : Publish(p) /\ UNCHANGED <<dealVars, fetchVars, trackVars, viewVars, raceVars>>
  \/ \E p \in Procs : Finish(p) /\ UNCHANGED <<dealVars, fetchVars, trackVars, viewVars, raceVars>>
  \/ Tick /\ UNCHANGED <<dealVars, fetchVars, trackVars, viewVars, raceVars>>

\* the timer and the interactive callers; the disk takes every write
Spec == Init /\ [][Next]_vars

NextTimer ==
  \/ StartCycle(TIMER, TRUE) /\ UNCHANGED <<dealVars, fetchVars, trackVars, viewVars, raceVars>>
  \/ FeedFetched(TIMER, TimerEnv) /\ UNCHANGED <<dealVars, fetchVars, trackVars, viewVars, raceVars>>
  \/ NextFeed(TIMER) /\ UNCHANGED <<dealVars, fetchVars, trackVars, viewVars, raceVars>>
  \/ Publish(TIMER) /\ UNCHANGED <<dealVars, fetchVars, trackVars, viewVars, raceVars>>
  \/ Finish(TIMER) /\ UNCHANGED <<dealVars, fetchVars, trackVars, viewVars, raceVars>>
  \/ Tick /\ UNCHANGED <<dealVars, fetchVars, trackVars, viewVars, raceVars>>

\* the timer alone, one cycle after the other; a write of the file may fail
SpecTimer == Init /\ [][NextTimer]_vars

\* nothing has been published yet
ColdStart == all_qualified_deals = <<>> /\ last_fetch_time = 0

NextOrder ==
  \/ ColdStart /\ StartCycle(TIMER, TRUE) /\ UNCHANGED <<dealVars, fetchVars, trackVars, viewVars, raceVars>>
  \/ FeedFetched(TIMER, OrderEnv) /\ UNCHANGED <<dealVars, fetchVars, trackVars, viewVars, raceVars>>
  \/ NextFeed(TIMER) /\ UNCHANGED <<dealVars, fetchVars, trackVars, viewVars, raceVars>>
  \/ Publish(TIMER) /\ UNCHANGED <<dealVars, fetchVars, trackVars, viewVars, raceVars>>
  \/ Finish(TIMER) /\ UNCHANGED <<dealVars, fetchVars, trackVars, viewVars, raceVars>>

\* the first cycle of the timer, with responses of several items; every
\* fetch succeeds
SpecOrder == Init /\ [][NextOrder]_vars

\* largest number of cycles of the race of cycles
MaxCycles == 3

\* the surroundings of racing cycles: every fetch succeeds, with or
\* without an item
RaceEnv ==
  [outs |-> {<<"ok", "ok", "ok">>},
   items |-> {ItemA80},
   max_items |-> MaxItems,
   writes |-> {"ok"},
   paces |-> {PACING_LOW}]

\* the cycles of Spec, each numbered by the rank of its start (line 364)
\* and the published list by the cycle it came from (line 398)
NextRace ==
  \/ \E p \in Procs : \E f \in ForceChoices(p) :
       CallCached(p, f) /\ UNCHANGED <<dealVars, fetchVars, trackVars, viewVars, raceVars>>
  \/ \E p \in Procs : \E f \in ForceChoices(p) :
       /\ starts < MaxCycles
       /\ StartCycle(p, f)
       /\ starts' = starts + 1
       /\ ticket' = [ticket EXCEPT ![p] = starts + 1]
       /\ UNCHANGED <<dealVars, fetchVars, trackVars, viewVars, pub_ticket>>
  \/ \E p \in Procs :
       FeedFetched(p, RaceEnv) /\ UNCHANGED <<dealVars, fetchVars, trackVars, viewVars, raceVars>>
  \/ \E p \in Procs :
       NextFeed(p) /\ UNCHANGED <<dealVars, fetchVars, trackVars, viewVars, raceVars>>
  \/ \E p \in Procs :
       /\ Publish(p)
       /\ pub_ticket' = ticket[p]
       /\ UNCHANGED <<dealVars, fetchVars, trackVars, viewVars, starts, ticket>>
  \/ \E p \in Procs :
       Finish(p) /\ UNCHANGED <<dealVars, fetchVars, trackVars, viewVars, raceVars>>
  \/ Tick /\ UNCHANGED <<dealVars, fetchVars, trackVars, viewVars, raceVars>>

SpecRace == Init /\ [][NextRace]_vars

(***************************************************************************)
(* A DealsView and its buttons                                             *)
(***************************************************************************)
\* lines 223-230, and the first page as the handler formats it (line 538)
InitView ==
  /\ view_deals \in ViewLists
  /\ view_title \in TitleChars
  /\ current_page = 0
  /\ total_pages = TotalPages(Len(view_deals))
  /\ view_op = "built"
  /\ message = format_deal_message(view_deals, 0, total_pages, view_title)
  /\ CycleIdle
  /\ DealIdle
  /\ FetchIdle
  /\ TrackIdle
  /\ RaceIdle

\* lines 264-269, with update_page (lines 239-244)
next_button ==
  /\ current_page' = NextPage(current_page, total_pages)
  /\ message' = format_deal_message(view_deals, current_page', total_pages, view_title)
  /\ view_op' = "next"
  /\ UNCHANGED <<view_deals, view_title, total_pages>>

\* lines 257-262, with update_page (lines 239-244)
previous_button ==
  /\ current_page' = PreviousPage(current_page, total_pages)
  /\ message' = format_deal_message(view_deals, current_page', total_pages, view_title)
  /\ view_op' = "previous"
  /\ UNCHANGED <<view_deals, view_title, total_pages>>

NextView ==
  \/ next_button /\ UNCHANGED <<cycleVars, dealVars, fetchVars, trackVars, raceVars>>
  \/ previous_button /\ UNCHANGED <<cycleVars, dealVars, fetchVars, trackVars, raceVars>>

SpecView == InitView /\ [][NextView]_vars

(***************************************************************************)
(* Properties                                                              *)
(***************************************************************************)
InCycle(p) == pc[p] \in {"fetching", "sleeping"}

\* C1: at most one refresh cycle executes at any time; a trigger that
\* arrives while a cycle is in flight starts no cycle, and so no fetch, of
\* its own.
Single_Flight == Cardinality({p \in Procs : InCycle(p)}) <= 1

\* C2: a non-forced call made less than MAX_CACHE_AGE_SECONDS after the
\* last cycle published performs no feed fetch (no caller starts to fetch in
\* the step), leaves the published list and its timestamp as they were, and
\* returns the published list.
Fresh_Call_Uses_Cache ==
  [][\A p \in Procs :
       ( /\ pc[p] = "idle"
         /\ pc'[p] # "idle"
         /\ ~force'[p]
         /\ last_fetch_time # 0
         /\ now - last_fetch_time < MAX_CACHE_AGE_SECONDS )
       => ( /\ pc'[p] = "cached"
            /\ \A q \in Procs : pc'[q] = "fetching" => pc[q] = "fetching"
            /\ all_qualified_deals' = all_qualified_deals
            /\ last_fetch_time' = last_fetch_time
            /\ ret'[p] = all_qualified_deals )]_vars

\* a non-forced call has returned a non-empty published list some time
\* after it was published
Fresh_Call_Happens ==
  \E p \in Procs :
    /\ pc[p] = "cached"
    /\ ~force[p]
    /\ ret[p] # <<>>
    /\ ret[p] = all_qualified_deals
    /\ now > last_fetch_time

\* C3: the stored low of an identifier is the lowest filter-passing price
\* observed for it so far: once set it neither rises nor disappears, through
\* reloads of the store from the file and failed writes of the file.
Low_Is_Minimum_Seen ==
  \A k \in OfferIds : seen[k] # None => historical_lows_cache[k] = seen[k]

\* C4: a filter-passing deal of identifier k and price p is NEW LOW exactly
\* when the store has no record of k, PRICE DROP with the stored value
\* exactly when the store has a record above p, GREAT DEAL otherwise (so
\* when p equals the record); NEW LOW and PRICE DROP leave the store mapping
\* k to p, GREAT DEAL leaves the store as it was.
Status_Follows_Store ==
  (t_stage = "tracked" /\ t_deal # NoDeal) =>
    LET k == t_deal.offer_id
        p == t_deal.sale_price[1]
        before == t_lows[k]
        status == t_out.deal.status[1]
    IN  /\ t_out.deal.status # None
        /\ [t_out.deal EXCEPT !.status = None] = t_deal
        /\ (status.label = "NEW LOW") <=> (before = None)
        /\ (status.label = "PRICE DROP") <=> (before # None /\ p < before[1])
        /\ (status.label = "GREAT DEAL") <=> (before # None /\ p >= before[1])
        /\ status.label = "PRICE DROP" => status.was = before
        /\ status.label \in {"NEW LOW", "PRICE DROP"} =>
             t_out.lows = [t_lows EXCEPT ![k] = Some(p)]
        /\ status.label = "GREAT DEAL" => t_out.lows = t_lows

\* a deal at exactly the stored low has been labelled GREAT DEAL
Equal_Price_Tracked ==
  /\ t_stage = "tracked"
  /\ t_deal # NoDeal
  /\ t_lows[t_deal.offer_id] = t_deal.sale_price
  /\ t_out.deal.status = Some(GREAT_DEAL)
  /\ t_out.lows = t_lows

\* the deals of a list without their status labels
Unlabelled(deals) == [i \in DOMAIN deals |-> [deals[i] EXCEPT !.status = None]]
\* the normalised items a cycle has received
Normalised(items) ==
  [i \in DOMAIN items |-> process_deal_data(items[i].raw, FEED_NAMES[items[i].feed])]
Count(list, x) == Cardinality({i \in DOMAIN list : list[i] = x})
Range(list) == {list[i] : i \in DOMAIN list}
SameItems(l1, l2) == \A x \in Range(l1) \cup Range(l2) : Count(l1, x) = Count(l2, x)

\* C5: the list a completed cycle publishes holds exactly the normalised
\* items of all its feeds that pass the strict filter, each as often as it
\* was received, whatever label the tracker gave it.
Published_Is_Filtered ==
  \A p \in Procs :
    pc[p] = "completed" =>
      /\ all_qualified_deals = ret[p]
      /\ SameItems(Unlabelled(ret[p]),
                   SelectSeq(Normalised(got[p]), passes_strict_rules))

\* a cycle has published a GREAT DEAL and left out an item that fails the
\* filter
Great_Deal_Published ==
  \E p \in Procs :
    /\ pc[p] = "completed"
    /\ \E i \in DOMAIN ret[p] : ret[p][i].status = Some(GREAT_DEAL)
    /\ \E i \in DOMAIN got[p] : got[p][i].raw = ItemA50

Degenerate(raw) ==
  \/ raw.SalePrice.k # "obj"
  \/ raw.ListPrice.k # "obj"
  \/ ~IsNumber(raw.SalePrice.min)
  \/ ~IsNumber(raw.ListPrice.min)
  \/ raw.SalePrice.min.v <= 0
  \/ raw.ListPrice.min.v <= 0

\* C7: a raw item that lacks a price sub-object, or whose sale or list
\* minimum is non-numeric or not positive, is normalised to discount 0 and
\* savings 0 with both prices absent, and is rejected by the filter.
Degenerate_Is_Zeroed ==
  (d_stage # "raw" /\ d_raw # None /\ Degenerate(d_raw[1])) =>
    /\ d_deal.discount_percent = 0
    /\ d_deal.savings_amount = 0
    /\ d_deal.sale_price = None
    /\ d_deal.list_price = None
    /\ d_stage = "judged" => ~d_passed

\* an attempt the call made got a 200 whose body gives an item list
UsableResponse(result, outs) ==
  \E i \in 1..Len(result.trace) :
    /\ result.trace[i].e = "request"
    /\ outs[result.trace[i].attempt + 1] \in {"ok", "nokey"}

\* C8: fetch_feed_data never raises: whatever the outcomes of its attempts
\* it returns a list, the empty one when no attempt got a usable 200.
Fetch_Never_Raises ==
  f_stage = "done" =>
    /\ f_result.kind = "list"
    /\ ~UsableResponse(f_result, f_outs) => f_result.items = <<>>

\* the passing items a cycle has received from a feed
PassingOf(items, i) ==
  SelectSeq(SelectSeq(Normalised(items), passes_strict_rules),
            LAMBDA d : d.feed_name = FEED_NAMES[i])

\* C9: a feed whose fetch fails contributes no item and does not abort the
\* cycle: no call raises on a failed fetch, the cycle goes on to the next
\* feed, and a completed cycle has fetched every feed and publishes the
\* passing items of the feeds that did not fail.
Feed_Failure_Contained ==
  \A p \in Procs :
    /\ \A i \in 1..Len(log[p]) :
         log[p][i] => /\ \A j \in DOMAIN got[p] : got[p][j].feed # i
                      /\ \A j \in DOMAIN acc[p] : acc[p][j].feed_name # FEED_NAMES[i]
    /\ pc[p] = "raised" => ~log[p][Len(log[p])]
    /\ (pc[p] = "sleeping" \/ pc[p] = "completed") => Len(log[p]) = feed[p]
    /\ pc[p] = "fetching" => Len(log[p]) = feed[p] - 1
    /\ pc[p] = "completed" =>
         /\ Len(log[p]) = NumFeeds
         /\ \A i \in 1..NumFeeds :
              ~log[p][i] =>
                 SameItems(Unlabelled(SelectSeq(ret[p], LAMBDA d : d.feed_name = FEED_NAMES[i])),
                           PassingOf(got[p], i))

\* a cycle whose first feed failed has completed and published deals of
\* another feed
Failed_Feed_Cycle_Completes ==
  \E p \in Procs :
    /\ pc[p] = "completed"
    /\ log[p][1]
    /\ ret[p] # <<>>
    /\ all_qualified_deals = ret[p]

\* C10: when a cycle aborts with an unexpected error, the published list
\* and its timestamp are what they were before the cycle began.
Abort_Leaves_Cache ==
  \A p \in Procs :
    pc[p] = "raised" =>
      /\ all_qualified_deals = snap[p].deals
      /\ last_fetch_time = snap[p].time

(***************************************************************************)
(* What the handler of /deals sends once its call of the orchestrator is   *)
(* over (lines 523-548): the deals the call returned, or, when the call    *)
(* raised, the text of the except branch.                                  *)
(***************************************************************************)
DealsReply(deals) == [kind |-> "deals", deals |-> deals]
ErrorReply == [kind |-> "error", deals |-> <<>>]

list_deals(p) ==
  IF pc[p] = "raised" THEN ErrorReply ELSE DealsReply(ret[p])

\* C11: a caller with a credential whose request runs into an aborted cycle
\* receives the last published list, not an error outcome.
Aborted_Request_Gets_Cache ==
  \A p \in Procs \ {TIMER} :
    (pc[p] = "raised" /\ ~force[p]) =>
      list_deals(p) = DealsReply(all_qualified_deals)

(***************************************************************************)
(* The attempts of fetch_feed_data                                         *)
(***************************************************************************)
EventsOf(trace, kind) == SelectSeq(trace, LAMBDA ev : ev.e = kind)

\* the first k attempts answer 429 and attempt k + 1 answers 200 with a list
RateLimitedThenOk(outs, k) ==
  /\ \A i \in 1..k : outs[i] = "r429"
  /\ outs[k + 1] = "ok"

\* C16: when the first k attempts (k <= 2) answer 429 and attempt k + 1
\* answers 200, the call returns exactly the item list of that response
\* after exactly k backoff waits, and the request of attempt k + 1 is its
\* last.
Retry_After_Rate_Limit ==
  f_stage = "done" =>
    \A k \in 0..(MAX_ATTEMPTS - 1) :
      RateLimitedThenOk(f_outs, k) =>
        /\ f_result.kind = "list"
        /\ f_result.items = f_items
        /\ Len(EventsOf(f_result.trace, "sleep")) = k
        /\ Len(EventsOf(f_result.trace, "request")) = k + 1
        /\ f_result.trace[Len(f_result.trace)] = Request(k)

\* two 429 and then a 200 carrying an item: the item came back after two
\* waits
Third_Attempt_Succeeds ==
  /\ f_stage = "done"
  /\ RateLimitedThenOk(f_outs, 2)
  /\ f_items # <<>>
  /\ f_result.items = f_items
  /\ Len(EventsOf(f_result.trace, "sleep")) = 2

\* the position in the trace of the request of an attempt, 0 when that
\* attempt was not made
RequestAt(trace, attempt) ==
  IF \E i \in DOMAIN trace : trace[i] = Request(attempt)
  THEN CHOOSE i \in DOMAIN trace : trace[i] = Request(attempt)
  ELSE 0

\* C17: every call ends after at most 3 requests; a timeout consumes one
\* attempt and is retried with no backoff wait, a 429 consumes one attempt,
\* and a status other than 200 and 429 or a transport error other than a
\* timeout ends the call at once with an empty result and no further
\* request.
Attempts_Are_Bounded ==
  f_stage = "done" =>
    LET trace == f_result.trace
    IN  /\ Len(EventsOf(trace, "request")) <= MAX_ATTEMPTS
        /\ \A a \in 0..(MAX_ATTEMPTS - 1) :
             LET i == RequestAt(trace, a)
             IN  i > 0 =>
                   /\ f_outs[a + 1] = "timeout" =>
                        (i < Len(trace) => trace[i + 1] = Request(a + 1))
                   /\ f_outs[a + 1] = "r429" =>
                        \A j \in (i + 1)..Len(trace) : trace[j].attempt >= a
                   /\ f_outs[a + 1] \in {"httperr", "nonerr", "transport"} =>
                        /\ i = Len(trace)
                        /\ f_result = Returned(<<>>, trace)

\* C18: a backoff wait happens only in response to a 429 on attempt a,
\* lasts 2^a seconds and a jitter within [0.5, 1.5] seconds, and is always
\* followed by another request: none is taken after the last attempt.
Backoff_Precedes_Retry ==
  f_stage = "done" =>
    LET trace == f_result.trace
    IN  \A i \in DOMAIN trace :
          trace[i].e = "sleep" =>
            LET a == trace[i].attempt
            IN  /\ f_outs[a + 1] = "r429"
                /\ trace[i - 1] = Request(a)
                /\ trace[i].low >= 10 * (2 ^ a) + 5
                /\ trace[i].high <= 10 * (2 ^ a) + 15
                /\ i < Len(trace)
                /\ trace[i + 1] = Request(a + 1)

\* C19: after a cycle aborts with an unexpected error the next request,
\* forced or not, starts a full new cycle rather than returning the
\* published list, whatever the age of that list.
Abort_Makes_Stale ==
  [][\A p \in Procs : \A q \in Procs :
       (pc[p] = "raised" /\ pc[q] = "idle" /\ pc'[q] # "idle") =>
         pc'[q] = "fetching"]_vars

\* a step of caller p is the end of a successful cycle
EndsCycle(p) ==
  /\ pc[p] = "sleeping"
  /\ feed[p] = NumFeeds
  /\ pc'[p] = "completed"

\* p holds a list its call returned
HoldsList(p) == pc[p] \in {"cached", "completed"}

\* C20: the published list starts empty and changes only by being replaced
\* wholesale, together with its timestamp, at the end of a successful
\* cycle; a list once returned to a reader is not changed by any later or
\* concurrent cycle.
Cache_Replaced_Wholesale ==
  /\ all_qualified_deals = <<>> /\ last_fetch_time = 0
  /\ [][<<all_qualified_deals, last_fetch_time>>' # <<all_qualified_deals, last_fetch_time>> =>
         \E p \in Procs :
           /\ EndsCycle(p)
           /\ all_qualified_deals' = SortDesc(acc[p])
           /\ last_fetch_time' = now]_vars
  /\ [][\A p \in Procs :
         (HoldsList(p) /\ pc'[p] = pc[p]) => ret'[p] = ret[p]]_vars

\* a reader still holds the deals it was given while a later cycle has
\* published another list
Reader_Keeps_Replaced_List ==
  \E p \in Procs :
    /\ HoldsList(p)
    /\ ret[p] # <<>>
    /\ all_qualified_deals # ret[p]
    /\ last_fetch_time > snap[p].time

(***************************************************************************)
(* Pagination                                                              *)
(***************************************************************************)
\* C12 as stated: for a view built from any list, the empty list included,
\* and after any sequence of next and previous, 0 <= current_page <=
\* total_pages - 1.
Page_In_Range ==
  /\ 0 <= current_page
  /\ current_page <= total_pages - 1

\* C12: for a view built from any non-empty list and after any sequence of
\* next and previous, 0 <= current_page <= total_pages - 1; for a view
\* built from the empty list total_pages is 0 and current_page stays 0.
Page_In_Range_Of_Deals ==
  IF view_deals # <<>>
  THEN 0 <= current_page /\ current_page <= total_pages - 1
  ELSE total_pages = 0 /\ current_page = 0

\* next has been pressed up to the last of three pages
Next_Reached_Last_Page ==
  /\ view_op = "next"
  /\ total_pages = 3
  /\ current_page = total_pages - 1

\* C13: next adds exactly 1 to current_page when it is below
\* total_pages - 1 and leaves it on the last page; previous takes exactly 1
\* from it when it is above 0 and leaves it on page 0; neither wraps
\* around, and neither changes the list, the title or total_pages.
Buttons_Step_By_One ==
  [][/\ view_op' = "next" =>
          current_page' = IF current_page < total_pages - 1
                          THEN current_page + 1 ELSE current_page
     /\ view_op' = "previous" =>
          current_page' = IF current_page > 0
                          THEN current_page - 1 ELSE current_page
     /\ view_deals' = view_deals
     /\ view_title' = view_title
     /\ total_pages' = total_pages]_vars

\* previous has brought a view of several pages back to page 0
Previous_Reached_First_Page ==
  /\ view_op = "previous"
  /\ total_pages > 1
  /\ current_page = 0

\* the positions from a to b in order
Positions(a, b) == [i \in 1..(b - a + 1) |-> a + i - 1]

\* C14: for n deals and pages of 10, total_pages is the ceiling of n / 10,
\* and a page i formatted without truncation shows exactly the deals at
\* positions 10i up to min(10(i + 1), n) (counted from 0, the upper end
\* excluded), in list order.
Pages_Partition_List ==
  LET n == Len(view_deals)
  IN  /\ total_pages * 10 >= n
      /\ (total_pages - 1) * 10 < n
      /\ (n > 0 /\ message.omitted = 0) =>
            message.items =
              Positions(10 * current_page + 1, Min(10 * (current_page + 1), n))

\* 23 deals make 3 pages, and the third shows the last 3 deals
Last_Page_Of_23 ==
  /\ Len(view_deals) = 23
  /\ total_pages = 3
  /\ current_page = 2
  /\ message.items = <<21, 22, 23>>
  /\ message.omitted = 0

\* C15: the text format_deal_message produces never exceeds 2000
\* characters.
Message_Within_Limit == message.chars <= MESSAGE_LIMIT

(***************************************************************************)
(* The order of a cycle                                                    *)
(***************************************************************************)
\* the deals of a list with a given discount
WithDiscount(deals, d) == SelectSeq(deals, LAMBDA x : x.discount_percent = d)

\* C21: the list a completed cycle publishes is ordered by non-increasing
\* discount percent, and deals of equal discount percent appear in the
\* order in which the cycle accepted them: feed order, then item order
\* within the feed.
Published_Sorted_Stable ==
  \A p \in Procs :
    pc[p] = "completed" =>
      /\ all_qualified_deals = ret[p]
      /\ \A i \in DOMAIN ret[p] : \A j \in DOMAIN ret[p] :
           i < j => ret[p][i].discount_percent >= ret[p][j].discount_percent
      /\ Unlabelled(acc[p]) = SelectSeq(Normalised(got[p]), passes_strict_rules)
      /\ \A d \in {x.discount_percent : x \in Range(acc[p]) \cup Range(ret[p])} :
           WithDiscount(ret[p], d) = WithDiscount(acc[p], d)

\* a published list the sort has reordered, with two different deals of
\* one feed at the same discount
Tie_Within_Feed_Published ==
  \E p \in Procs :
    /\ pc[p] = "completed"
    /\ ret[p] # acc[p]
    /\ \E i \in 1..(Len(ret[p]) - 1) :
         /\ ret[p][i].discount_percent = ret[p][i + 1].discount_percent
         /\ ret[p][i].feed_name = ret[p][i + 1].feed_name
         /\ ret[p][i].offer_id # ret[p][i + 1].offer_id

\* C22: within a cycle the feeds are fetched one at a time in the order of
\* FEED_NAMES, each exactly once: the fetch of feed i + 1 starts only after
\* the fetch of feed i has returned, its items have been processed, and a
\* pacing sleep of 1.1 to 1.3 seconds is over.
Feeds_In_Order ==
  [][\A p \in Procs :
       /\ (pc'[p] = "fetching" /\ pc[p] # "fetching") =>
            \/ pc[p] = "idle" /\ feed'[p] = 1
            \/ /\ pc[p] = "sleeping"
               /\ feed'[p] = feed[p] + 1
               /\ feed'[p] <= Len(FEED_NAMES)
               /\ Len(log[p]) = feed[p]
               /\ pace[p] >= 11 /\ pace[p] <= 13
       /\ (pc'[p] = "fetching" /\ pc[p] = "fetching") => feed'[p] = feed[p]
       /\ (pc'[p] = "sleeping" /\ pc[p] # "sleeping") =>
            /\ pc[p] = "fetching"
            /\ feed'[p] = feed[p]
            /\ Len(log'[p]) = feed[p]
            /\ \A i \in (Len(got[p]) + 1)..Len(got'[p]) : got'[p][i].feed = feed[p]
            /\ Unlabelled(acc'[p]) = SelectSeq(Normalised(got'[p]), passes_strict_rules)
            /\ \A i \in (Len(acc[p]) + 1)..Len(acc'[p]) :
                 acc'[p][i].feed_name = FEED_NAMES[feed[p]]
       /\ (pc'[p] = "completed" /\ pc[p] # "completed") =>
            /\ pc[p] = "sleeping"
            /\ feed[p] = Len(FEED_NAMES)
            /\ Len(log[p]) = Len(FEED_NAMES)]_vars

\* the fetch of the second feed is under way after the items of the first
\* were processed
Second_Feed_Follows_First ==
  \E p \in Procs :
    /\ pc[p] = "fetching"
    /\ feed[p] = 2
    /\ Len(log[p]) = 1
    /\ acc[p] # <<>>
    /\ \A i \in DOMAIN acc[p] : acc[p][i].feed_name = FEED_NAMES[1]

\* C23: the list one cycle publishes never holds two deals with the same
\* identifier, also when several feeds return the same item or when items
\* lack an identifier.
Identifiers_Unique ==
  \A p \in Procs :
    pc[p] = "completed" =>
      \A i \in DOMAIN ret[p] : \A j \in DOMAIN ret[p] :
        i # j => ret[p][i].offer_id # ret[p][j].offer_id

\* C24: the published cache never goes backwards in time: once the list of
\* a cycle has been published, the list and its timestamp are never
\* replaced by the list of a cycle that started fetching earlier than that
\* cycle.
Cache_Never_Goes_Back ==
  [][\A p \in Procs :
       (EndsCycle(p) /\ all_qualified_deals' = SortDesc(acc[p])) =>
         ticket[p] > pub_ticket]_vars

====
